---- MODULE Spec2Model ----
(***************************************************************************)
(* Model of notebooks/advection.py: the periodic 1-D advection integrator  *)
(* (forward in time, centred in space), its grid set-up, its integration   *)
(* loop and its "true" solution obtained by rotating the initial profile.  *)
(*                                                                         *)
(* Numbers.  The notebook computes in IEEE doubles.  The model computes in *)
(* exact rationals <<n, d>> (d > 0, lowest terms), so that fields can be   *)
(* compared by equality; rounding of individual float operations is not    *)
(* modelled.  int(...) is modelled as truncation toward zero.              *)
(*                                                                         *)
(* Arrays.  numpy arrays are objects: `heap` maps object ids to fields and *)
(* the names qinit, q0, q1, qtrue hold object ids (0 = name not bound), so *)
(* that `q0=qinit` is an alias and an in-place update would be visible.    *)
(***************************************************************************)
EXTENDS Integers, Sequences, FiniteSets, TLC

\* ------------------------------------------------------------------ bounds
\* xsize ranges over 0..MaxXsize, time over -1..MaxTime.
MaxXsize == 4
MaxTime == 3

\* The number of levels of the column, and the number of iterations of the
\* stratosphere-adjusted loop that are followed.
NLev == 15

MaxStratSteps == 2

\* The number of iterations of the fixed-relative-humidity loop that are
\* followed.
MaxRhSteps == 2

\* The largest number of members of a zip archive.
MaxMembers == 4

\* ------------------------------------------------------- rational numbers
Abs(x) == IF x < 0 THEN -x ELSE x

Min(a, b) == IF a <= b THEN a ELSE b

RECURSIVE GCD(_, _)
GCD(a, b) == IF b = 0 THEN a ELSE GCD(b, a % b)

LCM(a, b) == (a \div GCD(a, b)) * b

\* n/d in lowest terms with a positive denominator (d # 0).
Rat(n, d) ==
    LET g == GCD(Abs(n), Abs(d))
        s == IF d < 0 THEN -1 ELSE 1
    IN  <<(s * n) \div g, (s * d) \div g>>

RInt(n) == <<n, 1>>

RAdd(a, b) ==
    LET l == LCM(a[2], b[2])
    IN  Rat(a[1] * (l \div a[2]) + b[1] * (l \div b[2]), l)

RNeg(a) == <<-a[1], a[2]>>

RSub(a, b) == RAdd(a, RNeg(b))

\* The product, with common factors cancelled before multiplying.
RMul(a, b) ==
    LET g1 == GCD(Abs(a[1]), b[2])
        g2 == GCD(Abs(b[1]), a[2])
    IN  Rat((a[1] \div g1) * (b[1] \div g2), (a[2] \div g2) * (b[2] \div g1))

\* a / b for b # 0.
RDiv(a, b) == Rat(a[1] * b[2], a[2] * b[1])

\* Comparisons over the common denominator.
RLeq(a, b) ==
    LET l == LCM(a[2], b[2])
    IN  a[1] * (l \div a[2]) <= b[1] * (l \div b[2])

RLess(a, b) ==
    LET l == LCM(a[2], b[2])
    IN  a[1] * (l \div a[2]) < b[1] * (l \div b[2])

\* Python int(x) of a float: truncation toward zero.
IntTrunc(r) == IF r[1] >= 0 THEN r[1] \div r[2] ELSE -((-r[1]) \div r[2])

\* The largest integer <= r.
RFloor(r) == r[1] \div r[2]

\* Python round(x): to the nearest integer, halves to the even neighbour.
RRound(r) ==
    LET f == RFloor(r)
        twice == 2 * (r[1] - f * r[2])
    IN  IF twice < r[2] THEN f
        ELSE IF twice > r[2] THEN f + 1
        ELSE IF f % 2 = 0 THEN f ELSE f + 1

\* ----------------------------------------------------------------- fields
\* A field is a sequence of rationals, one per grid point (1-based here,
\* 0-based in numpy: entry i of the model is numpy index i-1).

\* A shift that does not wrap: entries shifted in from outside the array keep
\* the value already there (non-periodic boundaries).
RollNoWrap(a, k) ==
    [i \in 1..Len(a) |-> IF (i - k) \in 1..Len(a) THEN a[i - k] ELSE a[i]]

\* np.roll(a, k): result[j] = a[(j - k) mod n] in 0-based indices.
Roll(a, k) ==
    [i \in 1..Len(a) |-> a[((i - 1 - k) % Len(a)) + 1]]

\* a - b on arrays of the same shape.
FSub(a, b) == [i \in 1..Min(Len(a), Len(b)) |-> RSub(a[i], b[i])]

\* scalar * array.
FScale(c, a) == [i \in 1..Len(a) |-> RMul(c, a[i])]

\* The coefficient with the velocity left out.
KCoefNoVel(u, t, x) == RDiv(t, RInt(2 * x))

\* K0=uvel*dt/(2*dx)
KCoef(u, t, x) == RDiv(RMul(RInt(u), t), RInt(2 * x))

\* The step on interior points only (q0[1:-1] - K0*(q0[2:] - q0[:-2])).
ExplicitStepInterior(q, k) ==
    [i \in 1..(IF Len(q) >= 2 THEN Len(q) - 2 ELSE 0) |->
        RSub(q[i + 1], RMul(k, RSub(q[i + 2], q[i])))]

\* The step with a stencil two cells wide on each side.
ExplicitStepWide(q, k) == FSub(q, FScale(k, FSub(Roll(q, -2), Roll(q, 2))))

\* A value limited to [-1, 1].
RClip(r) ==
    IF RLess(RInt(1), r) THEN RInt(1)
    ELSE IF RLess(r, RInt(-1)) THEN RInt(-1) ELSE r

\* The step followed by np.clip(q1, -1, 1).
ExplicitStepClipped(q, k) ==
    LET out == FSub(q, FScale(k, FSub(Roll(q, -1), Roll(q, 1))))
    IN  [i \in 1..Len(out) |-> RClip(out[i])]

\* The step done in place, entry by entry from the first: entry i is
\* computed from the neighbours as they are at that moment.
RECURSIVE SweepFrom(_, _, _)
SweepFrom(q, k, i) ==
    IF i > Len(q) THEN q
    ELSE LET l == ((i - 2) % Len(q)) + 1
             r == (i % Len(q)) + 1
         IN  SweepFrom([q EXCEPT ![i] = RSub(q[i], RMul(k, RSub(q[r], q[l])))],
                       k, i + 1)

ExplicitStepSweep(q, k) == SweepFrom(q, k, 1)

\* q0-K0*(np.roll(q0,-1)-np.roll(q0,1))
ExplicitStep(q, k) == FSub(q, FScale(k, FSub(Roll(q, -1), Roll(q, 1))))

\* The step count rounded up instead of truncated.
NStepsCeil(T, t) == -RFloor(RNeg(RDiv(RInt(T), t)))

\* nsteps=int(time/dt) for dt # 0.
NSteps(T, t) == IntTrunc(RDiv(RInt(T), t))

\* The shift rounded to the nearest cell instead of truncated.
CellShiftRound(n, t, u) == RRound(RMul(RMul(RInt(n), t), RInt(u)))

\* The shift rounded down instead of truncated.
CellShiftFloor(n, t, u) == RFloor(RMul(RMul(RInt(n), t), RInt(u)))

\* int((it+1)*dt*uvel): the number of cells the "true" solution is rolled by
\* after n = it+1 steps.
CellShift(n, t, u) == IntTrunc(RMul(RMul(RInt(n), t), RInt(u)))

\* The field after n iterations of lines 104-105 from field q.
RECURSIVE Integrate(_, _, _)
Integrate(q, k, n) ==
    IF n <= 0 THEN q ELSE Integrate(ExplicitStep(q, k), k, n - 1)

\* The semi-Lagrangian step (the notebook leaves it as an exercise).
\* The departure point of grid point i, x_i - u*dt, in units of dx, counted
\* from the first grid point.
SLPos(i, u, t, x) == RSub(RInt(i - 1), RDiv(RMul(RInt(u), t), RInt(x)))

\* The cell left of the departure point, before wrapping.
SLLeft(pos) == RFloor(pos)

\* The weight taken from truncation instead of the floor: negative for a
\* departure point left of the first grid point.
SLFracTrunc(pos) == RSub(pos, RInt(IntTrunc(pos)))

\* The interpolation weight (x_d - x_left)/dx.
SLFrac(pos) == RSub(pos, RInt(SLLeft(pos)))

\* The indices of the two periodically wrapped cells that bracket pos.
SLLeftIndex(pos, M) == (SLLeft(pos) % M) + 1
SLRightIndex(pos, M) == ((SLLeft(pos) + 1) % M) + 1

\* One step: the value at each departure point, interpolated linearly
\* between the two bracketing cells with weight frac on the right one.
SemiLagrangianStep(q, u, t, x) ==
    LET M == Len(q)
    IN  [i \in 1..M |->
            LET pos  == SLPos(i, u, t, x)
                frac == SLFrac(pos)
            IN  RAdd(RMul(RSub(RInt(1), frac), q[SLLeftIndex(pos, M)]),
                     RMul(frac, q[SLRightIndex(pos, M)]))]

\* The field after n semi-Lagrangian steps from field q.
RECURSIVE SLIntegrate(_, _, _, _, _)
SLIntegrate(q, u, t, x, n) ==
    IF n <= 0 THEN q
    ELSE SLIntegrate(SemiLagrangianStep(q, u, t, x), u, t, x, n - 1)

\* The largest k in lo..hi with k*k <= n, for lo*lo <= n.
RECURSIVE ISqrtSearch(_, _, _)
ISqrtSearch(n, lo, hi) ==
    IF lo >= hi THEN lo
    ELSE LET mid == (lo + hi + 1) \div 2
         IN  IF mid * mid <= n THEN ISqrtSearch(n, mid, hi)
             ELSE ISqrtSearch(n, lo, mid - 1)

\* floor(sqrt(n)) for 0 <= n < 2^31.
ISqrt(n) == ISqrtSearch(n, 0, Min(n, 46340))

\* The non-negative square root of a rational r >= 0: the exact rational
\* root where there is one, otherwise the irrational root named by its
\* radicand.
Sqrt(r) ==
    LET a == ISqrt(r[1])
        b == ISqrt(r[2])
    IN  IF a * a = r[1] /\ b * b = r[2]
        THEN [exact |-> TRUE, value |-> Rat(a, b)]
        ELSE [exact |-> FALSE, radicand |-> r]

\* The error metric of the homework (the notebook asks for it, without
\* code). The squared sum of two entries, in place of the difference.
SqSum(x, y) == RMul(RAdd(x, y), RAdd(x, y))

\* (computed - reference)^2 for one grid point.
SqErr(x, y) == RMul(RSub(x, y), RSub(x, y))

\* The squared errors against the reference shifted by one cell.
RECURSIVE SumSqShifted(_, _, _)
SumSqShifted(c, r, n) ==
    IF n = 0 THEN RInt(0)
    ELSE RAdd(SumSqShifted(c, r, n - 1), SqErr(c[n], r[(n % Len(r)) + 1]))

\* The sum of the squared errors of the first n grid points.
RECURSIVE SumSq(_, _, _)
SumSq(c, r, n) ==
    IF n = 0 THEN RInt(0)
    ELSE RAdd(SumSq(c, r, n - 1), SqErr(c[n], r[n]))

\* mean((computed - reference)**2) over all grid points (at least one).
MeanSquare(c, r) == RDiv(SumSq(c, r, Len(c)), RInt(Len(c)))

\* RMSE(computed, reference) = sqrt(mean((computed - reference)**2)).
Rmse(c, r) == Sqrt(MeanSquare(c, r))

\* int(xsize/dx)+1: the number of grid points.
GridPoints(xs, x) == IntTrunc(Rat(xs, x)) + 1

\* np.linspace(0,xsize,num,endpoint=False): the last point stops short of
\* xsize.
LinspaceNoEndpoint(xs, num) == [i \in 1..num |-> Rat((i - 1) * xs, num)]

\* np.linspace(0,xsize,num): num evenly spaced points from 0 to xsize, both
\* included; a single point 0 when num = 1.
Linspace(xs, num) ==
    [i \in 1..num |-> IF num = 1 THEN RInt(0) ELSE Rat((i - 1) * xs, num - 1)]

\* ------------------------------------------------------------------ inputs
XsizeSet == 0..MaxXsize
DxSet == {-1, 0, 1, 2}
DtSet == {<<-1, 1>>, <<0, 1>>, <<1, 2>>, <<1, 1>>, <<2, 1>>}
UvelSet == {-1, 0, 1}
TimeSet == -1..MaxTime
\* Sample values of the initial profile.  The notebook samples a sine wave
\* (irrational values); the commented-out alternative is a square wave.
QVals == {RInt(0), RInt(1)}

\* ------------------------------------------------------------------- state
VARIABLES
    xsize, dx, dt, uvel, time,   \* the parameters of cell In[2]
    xpt,                         \* the grid coordinates
    heap,                        \* object id -> array contents
    qinit, q0, q1, qtrue,        \* names: object id, or 0 when not bound
    nsteps, K0, it,              \* loop variables; it = iterations completed
    pc,                          \* "off", "grid", "setup", "loop", "plot", "done"
    err,                         \* "" or the exception that ended the run
    qinit0                       \* history: the contents qinit was created with

\* The state of the Daisyworld notebook (daisy_world.py). Reals are held in
\* fixed point: areas, albedos and birth rates in units of 1/10000,
\* temperatures in hundredths of a kelvin, rounded down.
VARIABLES
    iflux,                       \* index of the luminosity being relaxed
    area_dw, area_db, area_bs,   \* cover fractions
    loop_it,                     \* the inner loop's counter it
    alb_p, T_p, T_db, T_dw,      \* albedo and temperatures of the last iteration
    birth_rate_db, birth_rate_dw,
    area_dw_v, area_db_v, area_bs_v, T_p_v, T_ref,   \* the result lists
    dpc                          \* "off", "sweep", "relax", "done"

advection == <<xsize, dx, dt, uvel, time, xpt, heap, qinit, q0, q1, qtrue,
               nsteps, K0, it, pc, err, qinit0>>

daisy == <<iflux, area_dw, area_db, area_bs, loop_it, alb_p, T_p, T_db, T_dw,
           birth_rate_db, birth_rate_dw, area_dw_v, area_db_v, area_bs_v,
           T_p_v, T_ref, dpc>>

\* The state of the water-vapour notebook (EBM_water_vapor.py): one call of
\* tau. Optical depths and fac are held in units of 1/10000.
VARIABLES
    tau_T,                       \* the argument T, in kelvin
    tau_fac,                     \* the argument fac: <<>> when omitted, else <<fac>>
    tau_val,                     \* the value returned
    wpc                          \* "off", "call", "done"

water == <<tau_T, tau_fac, tau_val, wpc>>

\* The state of the stratosphere-adjusted loop of sensitivity-feedback.py
\* (cell In[67]). Temperatures are whole kelvin; a column is a function from
\* the level index (0 = top) to a temperature.
VARIABLES
    rcm_Tatm, rcm_Ts,            \* the reference model rcm
    strat_Tatm, strat_Ts,        \* the model rcm_2xCO2_strat
    strat_stepped,               \* history: Tatm as the last step_forward left it
    strat_n,                     \* iterations completed
    spc                          \* "off", "loop", "done"

strat == <<rcm_Tatm, rcm_Ts, strat_Tatm, strat_Ts, strat_stepped, strat_n, spc>>

\* The state of the fixed-relative-humidity loop of sensitivity-feedback.py
\* (cells In[77] to In[80]). Specific humidities are rationals in units of
\* 1e-6 kg/kg, relative humidities are rationals.
VARIABLES
    rh,                          \* the reference relative humidity, per level
    h2o_Tatm, h2o_Ts,            \* the model rcm_2xCO2_h2o
    h2o_q,                       \* its specific_humidity
    h2o_Tstep, h2o_qstep,        \* history: Tatm before, and the humidity
                                 \* during, the last step_forward
    h2o_n,                       \* iterations completed
    hpc                          \* "off", "loop", "done"

humid == <<rh, h2o_Tatm, h2o_Ts, h2o_q, h2o_Tstep, h2o_qstep, h2o_n, hpc>>

\* The state of one call of unzip_cmip (CMIP_IPCC_fun.py). A member of the
\* archive is a pair <<stem, extension>>.
VARIABLES
    archive,                     \* the members of the zip file, in order
    extracted,                   \* the members written to odir
    files,                       \* the list returned
    zpc                          \* "off", "call", "done"

cmip == <<archive, extracted, files, zpc>>

vars == <<advection, daisy, water, strat, humid, cmip>>

\* What each notebook leaves alone.
besidesAdvection == <<daisy, water, strat, humid, cmip>>

besidesDaisy == <<advection, water, strat, humid, cmip>>

besidesWater == <<advection, daisy, strat, humid, cmip>>

besidesStrat == <<advection, daisy, water, humid, cmip>>

besidesHumid == <<advection, daisy, water, strat, cmip>>

besidesCmip == <<advection, daisy, water, strat, humid>>

params == <<xsize, dx, dt, uvel, time>>

Unbound == 0

\* The smallest object id that is not in use.
Fresh(h) == CHOOSE o \in 1..(Cardinality(DOMAIN h) + 1) :
                /\ o \notin DOMAIN h
                /\ \A p \in 1..(o - 1) : p \in DOMAIN h

\* Reference counting: objects no name refers to are freed.
Collect(h, live) == [o \in (DOMAIN h) \cap live |-> h[o]]

\* An in-place update (q0 -= ...) writes into the array q0 refers to.
Q1InPlace(h, cur) == cur

\* The object `q1 = <expression>` binds: a new array.
Q1Target(h, cur) == Fresh(h)

\* After lines 66-72: the parameters are set, nothing else exists yet.
\* The Daisyworld notebook is not being run.
DaisyOff ==
    /\ dpc = "off"
    /\ iflux = 0 /\ loop_it = 0
    /\ area_dw = Unbound /\ area_db = Unbound /\ area_bs = Unbound
    /\ alb_p = Unbound /\ T_p = Unbound /\ T_db = Unbound /\ T_dw = Unbound
    /\ birth_rate_db = Unbound /\ birth_rate_dw = Unbound
    /\ area_dw_v = <<>> /\ area_db_v = <<>> /\ area_bs_v = <<>>
    /\ T_p_v = <<>> /\ T_ref = <<>>

\* The water-vapour notebook is not being run.
WaterOff ==
    /\ wpc = "off"
    /\ tau_T = 0 /\ tau_fac = <<>> /\ tau_val = Unbound

\* The stratosphere-adjusted loop is not being run.
StratOff ==
    /\ spc = "off"
    /\ rcm_Tatm = <<>> /\ rcm_Ts = 0
    /\ strat_Tatm = <<>> /\ strat_Ts = 0
    /\ strat_stepped = <<>> /\ strat_n = 0

\* The fixed-relative-humidity loop is not being run.
HumidOff ==
    /\ hpc = "off"
    /\ rh = <<>> /\ h2o_Tatm = <<>> /\ h2o_Ts = 0 /\ h2o_q = <<>>
    /\ h2o_Tstep = <<>> /\ h2o_qstep = <<>> /\ h2o_n = 0

\* unzip_cmip is not being called.
CmipOff ==
    /\ zpc = "off"
    /\ archive = <<>> /\ extracted = {} /\ files = <<>>

\* The advection notebook is not being run.
AdvectionOff ==
    /\ pc = "off"
    /\ xsize = 0 /\ dx = 1 /\ dt = RInt(1) /\ uvel = 0 /\ time = 0
    /\ xpt = <<>> /\ heap = <<>> /\ qinit0 = <<>>
    /\ qinit = Unbound /\ q0 = Unbound /\ q1 = Unbound /\ qtrue = Unbound
    /\ nsteps = 0 /\ K0 = RInt(0) /\ it = 0
    /\ err = ""

Init ==
    /\ DaisyOff
    /\ WaterOff
    /\ StratOff
    /\ HumidOff
    /\ CmipOff
    /\ xsize \in XsizeSet
    /\ dx \in DxSet
    /\ dt \in DtSet
    /\ uvel \in UvelSet
    /\ time \in TimeSet
    /\ xpt = <<>>
    /\ heap = <<>>
    /\ qinit = Unbound /\ q0 = Unbound /\ q1 = Unbound /\ qtrue = Unbound
    /\ nsteps = 0 /\ K0 = RInt(0) /\ it = 0
    /\ pc = "grid"
    /\ err = ""
    /\ qinit0 = <<>>

\* Lines 75-76: the grid and the initial profile on it (dx # 0 and a
\* sample count that np.linspace accepts).
GridSetup ==
    /\ pc = "grid"
    /\ dx # 0
    /\ GridPoints(xsize, dx) >= 0
    /\ LET num == GridPoints(xsize, dx)
       IN  /\ xpt' = Linspace(xsize, num)
           /\ \E f \in [1..num -> QVals] :
                /\ heap' = (1 :> f)
                /\ qinit0' = f
    /\ qinit' = 1
    /\ pc' = "setup"
    /\ UNCHANGED <<params, q0, q1, qtrue, nsteps, K0, it, err>>
    /\ UNCHANGED besidesAdvection

\* Line 75 when dx = 0: the float division xsize/dx raises.
GridZeroDivision ==
    /\ pc = "grid"
    /\ dx = 0
    /\ err' = "ZeroDivisionError"
    /\ pc' = "done"
    /\ UNCHANGED <<params, xpt, heap, qinit, q0, q1, qtrue, nsteps, K0, it,
                   qinit0>>
    /\ UNCHANGED besidesAdvection

\* Line 75 when int(xsize/dx)+1 < 0: np.linspace rejects a negative number
\* of samples.
GridValueError ==
    /\ pc = "grid"
    /\ dx # 0
    /\ GridPoints(xsize, dx) < 0
    /\ err' = "ValueError"
    /\ pc' = "done"
    /\ UNCHANGED <<params, xpt, heap, qinit, q0, q1, qtrue, nsteps, K0, it,
                   qinit0>>
    /\ UNCHANGED besidesAdvection

\* Lines 98-100 when dt # 0.
Setup ==
    /\ pc = "setup"
    /\ dt[1] # 0
    /\ nsteps' = NSteps(time, dt)
    /\ q0' = qinit
    /\ K0' = KCoef(uvel, dt, dx)
    /\ pc' = "loop"
    /\ UNCHANGED <<params, xpt, heap, qinit, q1, qtrue, it, err, qinit0>>
    /\ UNCHANGED besidesAdvection

\* Line 98 when dt = 0: the float division raises.
SetupZeroDivision ==
    /\ pc = "setup"
    /\ dt[1] = 0
    /\ err' = "ZeroDivisionError"
    /\ pc' = "done"
    /\ UNCHANGED <<params, xpt, heap, qinit, q0, q1, qtrue, nsteps, K0, it,
                   qinit0>>
    /\ UNCHANGED besidesAdvection

\* Lines 103-106: one iteration of the loop body.
Step ==
    /\ pc = "loop"
    /\ it < nsteps
    /\ LET new == ExplicitStep(heap[q0], K0)
           id1 == Q1Target(heap, q0)
           h1  == Collect((id1 :> new) @@ heap, {qinit, id1, qtrue})
           ref == Roll(h1[qinit], CellShift(it + 1, dt, uvel))
           id2 == Fresh(h1)
           h2  == Collect((id2 :> ref) @@ h1, {qinit, id1, id2})
       IN  /\ q1' = id1
           /\ q0' = id1
           /\ qtrue' = id2
           /\ heap' = h2
    /\ it' = it + 1
    /\ UNCHANGED <<params, xpt, qinit, nsteps, K0, pc, err, qinit0>>
    /\ UNCHANGED besidesAdvection

\* Line 103: range(nsteps) is exhausted (at once when nsteps <= 0).
LoopExit ==
    /\ pc = "loop"
    /\ it >= nsteps
    /\ pc' = "plot"
    /\ UNCHANGED <<params, xpt, heap, qinit, q0, q1, qtrue, nsteps, K0, it,
                   err, qinit0>>
    /\ UNCHANGED besidesAdvection

\* Lines 108-115: the plot reads qinit, q1 and qtrue.
Plot ==
    /\ pc = "plot"
    /\ q1 # Unbound /\ qtrue # Unbound
    /\ pc' = "done"
    /\ UNCHANGED <<params, xpt, heap, qinit, q0, q1, qtrue, nsteps, K0, it,
                   err, qinit0>>
    /\ UNCHANGED besidesAdvection

\* Line 111 when the loop body never ran: q1 is not defined.
PlotNameError ==
    /\ pc = "plot"
    /\ q1 = Unbound
    /\ err' = "NameError"
    /\ pc' = "done"
    /\ UNCHANGED <<params, xpt, heap, qinit, q0, q1, qtrue, nsteps, K0, it,
                   qinit0>>
    /\ UNCHANGED besidesAdvection

Next ==
    \/ GridSetup
    \/ GridZeroDivision
    \/ GridValueError
    \/ Setup
    \/ SetupZeroDivision
    \/ Step
    \/ LoopExit
    \/ Plot
    \/ PlotNameError

Spec == Init /\ [][Next]_vars

\* -------------------------------------------------------------- Daisyworld
\* 1.0 in the fixed-point unit of areas, albedos and birth rates.
One == 10000

\* Line 35, in hundredths of a kelvin.
keloff == 27315

\* Line 36: the Stefan-Boltzmann constant, in units of 1e-10 W/m**2/K**4.
sigma == 567

\* Line 37.
S0 == 1000

\* Line 38: kelvin of local temperature per unit of albedo difference.
transport == 20

\* Line 39.
maxloop == 100

\* Line 40: luminosity = np.arange(0.5,1.5,0.01) has NLum values; value
\* number i (from 0) is 0.5 + 0.01*i, held in hundredths.
NLum == 100

Flux(i) == 50 + i

\* Lines 61-63: Td_ideal in hundredths of a kelvin, birth_rate_k in units of
\* 1e-6 per K**2, death_rate in units of 1/10000.
Td_ideal == 2250 + keloff

birth_rate_k == 3265

death_rate == 3000

\* Lines 76-78.
alb_dw == 7500

alb_db == 2500

alb_bs == 5000

\* Lines 132, 138, 139: the cover 0.01.
MinArea == 100

Max(a, b) == IF a >= b THEN a ELSE b

\* 1.0-birth_rate_k*(Td_ideal-T)**2: with d = Td_ideal - T in hundredths of
\* a kelvin the subtrahend is floor(birth_rate_k * d*d / 1e6) units, computed
\* from the upper and lower four digits of d*d to stay within 32 bits.
BirthQuadratic(T) ==
    LET d2 == (Td_ideal - T) * (Td_ideal - T)
        hi == d2 \div 10000
        lo == d2 % 10000
    IN  One - ((hi * birth_rate_k + (lo * birth_rate_k) \div 10000) \div 100)

\* The response curve without the max.
BirthRateUnclamped(T) == BirthQuadratic(T)

\* Lines 64-66: birth_rate(T).
birth_rate(T) == Max(BirthQuadratic(T), 0)

\* Line 146: the area-weighted albedo.
PlanetAlbedo(dw, db, bs) == (dw * alb_dw + db * alb_db + bs * alb_bs) \div One

\* Lines 149, 171: np.power(flux*S0*(1-alb)/sigma,0.25) in hundredths of a
\* kelvin. y is the fourth power of the temperature divided by 1e4; the
\* fourth root is taken as two square roots.
PlanetTemp(flux, alb) ==
    LET y == (flux * S0 * (One - alb)) \div sigma
    IN  ISqrt(100000 * ISqrt(100 * y))

\* Lines 152-153: transport*(alb_p-alb)+T_p.
LocalTemp(albp, alb, Tp) == ((transport * 100 * (albp - alb)) \div One) + Tp

\* Lines 160-161: area += area*(birth*area_bs-death_rate).
Grow(area, birth, bs) ==
    area + (area * (((birth * bs) \div One) - death_rate)) \div One

\* The bare soil left by the white daisies alone.
BareSoilWhiteOnly(dw, db) == One - dw

\* Lines 140, 164: area_bs=1.0-area_dw-area_db.
BareSoil(dw, db) == One - dw - db

\* The two updates with the bare soil recomputed in between: the white
\* daisies grow into what the black daisies have left.
GrowBothInTurn(db, dw, bdb, bdw, bs) ==
    LET ndb == Grow(db, bdb, bs)
    IN  <<ndb, Grow(dw, bdw, BareSoil(dw, ndb))>>

\* Lines 160-161: the black, then the white area, both with the area_bs of
\* the start of the iteration; <<area_db, area_dw>> afterwards.
GrowBoth(db, dw, bdb, bdw, bs) == <<Grow(db, bdb, bs), Grow(dw, bdw, bs)>>

\* The area carried over without a minimum.
KeepArea(a) == a

\* Lines 138-139: max(area,0.01).
RestoreArea(a) == Max(a, MinArea)

\* Lines 126-132: empty result lists and the initial areas.
DaisyInit ==
    /\ AdvectionOff
    /\ WaterOff
    /\ StratOff
    /\ HumidOff
    /\ CmipOff
    /\ dpc = "sweep"
    /\ iflux = 0 /\ loop_it = 0
    /\ area_dw = MinArea /\ area_db = MinArea
    /\ area_bs = Unbound
    /\ alb_p = Unbound /\ T_p = Unbound /\ T_db = Unbound /\ T_dw = Unbound
    /\ birth_rate_db = Unbound /\ birth_rate_dw = Unbound
    /\ area_dw_v = <<>> /\ area_db_v = <<>> /\ area_bs_v = <<>>
    /\ T_p_v = <<>> /\ T_ref = <<>>

\* Lines 135-141: the next luminosity starts from the areas left by the
\* previous one.
LumStart ==
    /\ dpc = "sweep"
    /\ iflux < NLum
    /\ area_dw' = RestoreArea(area_dw)
    /\ area_db' = RestoreArea(area_db)
    /\ area_bs' = BareSoil(area_dw', area_db')
    /\ loop_it' = 0
    /\ dpc' = "relax"
    /\ UNCHANGED <<iflux, alb_p, T_p, T_db, T_dw, birth_rate_db, birth_rate_dw,
                   area_dw_v, area_db_v, area_bs_v, T_p_v, T_ref>>
    /\ UNCHANGED besidesDaisy

\* Lines 142-164: one iteration of the inner loop.
Relax ==
    /\ dpc = "relax"
    /\ loop_it < maxloop
    /\ loop_it' = loop_it + 1
    /\ alb_p' = PlanetAlbedo(area_dw, area_db, area_bs)
    /\ T_p' = PlanetTemp(Flux(iflux), alb_p')
    /\ T_db' = LocalTemp(alb_p', alb_db, T_p')
    /\ T_dw' = LocalTemp(alb_p', alb_dw, T_p')
    /\ birth_rate_db' = birth_rate(T_db')
    /\ birth_rate_dw' = birth_rate(T_dw')
    /\ LET new == GrowBoth(area_db, area_dw, birth_rate_db', birth_rate_dw',
                            area_bs)
       IN  /\ area_db' = new[1]
           /\ area_dw' = new[2]
    /\ area_bs' = BareSoil(area_dw', area_db')
    /\ UNCHANGED <<iflux, dpc, area_dw_v, area_db_v, area_bs_v, T_p_v, T_ref>>
    /\ UNCHANGED besidesDaisy

\* Lines 142, 167-171: the inner loop has ended; one entry is appended to
\* each result list.
Store ==
    /\ dpc = "relax"
    /\ loop_it >= maxloop
    /\ area_db_v' = Append(area_db_v, area_db)
    /\ area_dw_v' = Append(area_dw_v, area_dw)
    /\ area_bs_v' = Append(area_bs_v, area_bs)
    /\ T_p_v' = Append(T_p_v, T_p)
    /\ T_ref' = Append(T_ref, PlanetTemp(Flux(iflux), alb_bs))
    /\ iflux' = iflux + 1
    /\ dpc' = "sweep"
    /\ UNCHANGED <<area_dw, area_db, area_bs, loop_it, alb_p, T_p, T_db, T_dw,
                   birth_rate_db, birth_rate_dw>>
    /\ UNCHANGED besidesDaisy

\* Line 135: the luminosities are exhausted.
SweepExit ==
    /\ dpc = "sweep"
    /\ iflux >= NLum
    /\ dpc' = "done"
    /\ UNCHANGED <<iflux, area_dw, area_db, area_bs, loop_it, alb_p, T_p, T_db,
                   T_dw, birth_rate_db, birth_rate_dw, area_dw_v, area_db_v,
                   area_bs_v, T_p_v, T_ref>>
    /\ UNCHANGED besidesDaisy

DaisyNext ==
    \/ LumStart
    \/ Relax
    \/ Store
    \/ SweepExit

DaisySpec == DaisyInit /\ [][DaisyNext]_vars

\* ------------------------------------------------------------ water vapour
\* a*b for fixed-point a, b >= 0 in units of 1/10000, rounded down; the
\* factors are split into their integer and fractional parts to stay within
\* 32 bits.
MulFix(a, b) ==
    LET ah == a \div One
        al == a % One
        bh == b \div One
        bl == b % One
    IN  ah * bh * One + ah * bl + al * bh + (al * bl) \div One

\* The Taylor series of exp(f) for 0 <= f < 1 from term number k on;
\* term is f^k/k!.
RECURSIVE ExpSeries(_, _, _)
ExpSeries(f, term, k) ==
    IF term = 0 THEN 0
    ELSE term + ExpSeries(f, (term * f) \div (One * (k + 1)), k + 1)

\* e^k for an integer k.
RECURSIVE EPow(_)
EPow(k) ==
    IF k = 0 THEN One
    ELSE IF k > 0 THEN MulFix(EPow(k - 1), 27183)
    ELSE (One * One) \div EPow(-k)

\* np.exp(x) for x in units of 1/10000: e^floor(x) * exp(x - floor(x)).
Exp(x) == MulFix(EPow(x \div One), ExpSeries(x % One, One, 0))

\* Line 37.
Lv == 2500000

\* Line 38: Rv in tenths.
Rv == 4615

\* Lines 24, 50: the constant part 1.12 of the optical depth.
TauCo2 == 11200

\* Line 47: the coefficient 0.41 of the water-vapour part.
TauWvCoef == 4100

\* Line 45, 49: the default 0.14 of the parameter fac.
FacDefault == 1400

\* Line 47: -Lv*(1/T-1/288)/Rv = (Lv/Rv)*(T-288)/(288*T) in units of
\* 1/10000, rounded down; zero at T = 288.
ExpArg(T) ==
    LET LoR == (Lv * 100) \div Rv
        num == LoR * (T - 288) * 100
        den == 288 * T
    IN  (num \div den) * 10 + ((num % den) * 10) \div den

\* The water-vapour part scaled by the parameter fac.
TauwvScaled(T, fac) == MulFix(fac, Exp(ExpArg(T)))

\* Lines 45-47: tauwv(T,fac) returns 0.41*np.exp(...); fac is not used.
tauwv(T, fac) == MulFix(TauWvCoef, Exp(ExpArg(T)))

\* Lines 49-50: tau(T,fac).
tau(T, fac) == TauCo2 + tauwv(T, fac)

\* Line 53: Ts = np.arange(200,400,5), and the 288 of lines 55 and 154.
TsSet == {200 + 5 * i : i \in 0..39} \cup {288}

\* The values passed for fac: omitted, or one of 0, 0.14, 0.28, 0.41.
FacArgSet == {<<>>, <<0>>, <<FacDefault>>, <<2 * FacDefault>>, <<TauWvCoef>>}

\* A call tau(T) or tau(T,fac=...) is about to be made.
WaterInit ==
    /\ AdvectionOff
    /\ DaisyOff
    /\ StratOff
    /\ HumidOff
    /\ CmipOff
    /\ wpc = "call"
    /\ tau_T \in TsSet
    /\ tau_fac \in FacArgSet
    /\ tau_val = Unbound

\* Lines 49-50 with 45-47: the call binds fac to its default when it is
\* omitted and returns 1.12+tauwv(T,fac=fac).
TauCall ==
    /\ wpc = "call"
    /\ LET fac == IF tau_fac = <<>> THEN FacDefault ELSE tau_fac[1]
       IN  tau_val' = tau(tau_T, fac)
    /\ wpc' = "done"
    /\ UNCHANGED <<tau_T, tau_fac>>
    /\ UNCHANGED besidesWater

WaterNext ==
    \/ TauCall

WaterSpec == WaterInit /\ [][WaterNext]_vars

\* ------------------------------------------- stratosphere-adjusted forcing
\* The level indices of the column, as numpy counts them.
Levels == 0..(NLev - 1)

\* Line 240: range(1000).
StratSteps == 1000

\* Line 243: the first level of the slice Tatm[9:].
ResetFrom == 9

\* Lines 225-233: levels 0 through 12 are in the stratosphere, levels 13 and
\* larger in the troposphere.
FirstTroposphericLevel == 13

\* The temperatures of the reference model after its integration (line
\* 129): a column warming towards the surface, with or without an
\* isothermal top.
RefColumns ==
    {[i \in Levels |-> 210 + 5 * i],
     [i \in Levels |-> IF i < 5 THEN 220 ELSE 195 + 5 * i]}

RefSurface == {288, 290}

\* The columns one step_forward of the radiative-convective model can leave
\* from column T: unchanged, one level warmer, or all levels warmer or
\* cooler by one kelvin.
StepColumns(T) ==
    {T}
    \cup {[i \in Levels |-> IF i = k THEN T[i] + 1 ELSE T[i]] : k \in Levels}
    \cup {[i \in Levels |-> T[i] + 1], [i \in Levels |-> T[i] - 1]}

\* The surface temperatures one step_forward can leave.
StepSurface(T) == {T, T + 1}

\* dst[from:] = src[from:] on arrays of equal length.
SliceAssign(dst, src, from) ==
    [i \in DOMAIN dst |-> IF i >= from THEN src[i] ELSE dst[i]]

\* Lines 146, 238: process_like gives rcm_2xCO2_strat the temperatures of
\* rcm_2xCO2, which are those of rcm.
StratInit ==
    /\ AdvectionOff
    /\ DaisyOff
    /\ WaterOff
    /\ HumidOff
    /\ CmipOff
    /\ spc = "loop"
    /\ rcm_Tatm \in RefColumns
    /\ rcm_Ts \in RefSurface
    /\ strat_Tatm = rcm_Tatm
    /\ strat_Ts = rcm_Ts
    /\ strat_stepped = rcm_Tatm
    /\ strat_n = 0

\* Lines 240-244: one iteration: step_forward, then the two resets.
StratStep ==
    /\ spc = "loop"
    /\ strat_n < Min(StratSteps, MaxStratSteps)
    /\ \E T \in StepColumns(strat_Tatm), S \in StepSurface(strat_Ts) :
          /\ strat_stepped' = T
          /\ strat_Tatm' = SliceAssign(T, rcm_Tatm, ResetFrom)
          /\ strat_Ts' = rcm_Ts
    /\ strat_n' = strat_n + 1
    /\ UNCHANGED <<rcm_Tatm, rcm_Ts, spc>>
    /\ UNCHANGED besidesStrat

\* Lines 240, 252: the loop has ended.
StratExit ==
    /\ spc = "loop"
    /\ strat_n >= Min(StratSteps, MaxStratSteps)
    /\ spc' = "done"
    /\ UNCHANGED <<rcm_Tatm, rcm_Ts, strat_Tatm, strat_Ts, strat_stepped,
                   strat_n>>
    /\ UNCHANGED besidesStrat

StratNext ==
    \/ StratStep
    \/ StratExit

StratSpec == StratInit /\ [][StratNext]_vars

\* ------------------------------------------------- fixed relative humidity
\* Line 429: range(2000).
RhSteps == 2000

\* rcm.lev: the pressure of level i in hPa, the mid-points of NLev layers of
\* equal mass.
Lev(i) == (1000 * (2 * i + 1)) \div (2 * NLev)

\* Lines 395, 434: climlab.utils.thermo.qsat(T,p) in units of 1e-6 kg/kg,
\* for T in whole kelvin and p in hPa: es = 6.112*exp(17.67*Tc/(Tc+243.5))
\* hPa with Tc = T - 273.15, and qsat = 0.622*es/(p - 0.378*es).
Qsat(T, p) ==
    LET Tc == 100 * T - 27315
        x  == (1767 * Tc * 100) \div (Tc + 24350)
        es == MulFix(61120, Exp(x))
    IN  (622 * es) \div ((p * 10000 - (378 * es) \div 1000) \div 1000)

\* qsat of a whole column.
QsatColumn(T) == [i \in Levels |-> Qsat(T[i], Lev(i))]

\* Line 393: the specific humidity of the reference model (the CESM mean
\* of lines 80-83), in units of 1e-6 kg/kg: half or four fifths of
\* saturation at every level.
RefHumidities(T) ==
    {[i \in Levels |-> RInt((Qsat(T[i], Lev(i)) * r) \div 10)] : r \in {5, 8}}

\* Line 397: rh = q/qsat, level by level.
RelativeHumidity(q, qs) == [i \in Levels |-> RDiv(q[i], RInt(qs[i]))]

\* The humidity left as it is.
KeepHumidity(q, rhv, qs) == q

\* Line 435: specific_humidity[:] = rh * qsat.
SetHumidity(q, rhv, qs) == [i \in Levels |-> RMul(rhv[i], RInt(qs[i]))]

\* Lines 393-397 and 422: rh from the reference model; process_like gives
\* rcm_2xCO2_h2o the temperatures and the humidity of the reference model.
HumidInit ==
    /\ AdvectionOff
    /\ DaisyOff
    /\ WaterOff
    /\ CmipOff
    /\ spc = "off"
    /\ rcm_Tatm \in RefColumns
    /\ rcm_Ts \in RefSurface
    /\ strat_Tatm = <<>> /\ strat_Ts = 0 /\ strat_stepped = <<>> /\ strat_n = 0
    /\ hpc = "loop"
    /\ h2o_q \in RefHumidities(rcm_Tatm)
    /\ rh = RelativeHumidity(h2o_q, QsatColumn(rcm_Tatm))
    /\ h2o_Tatm = rcm_Tatm
    /\ h2o_Ts = rcm_Ts
    /\ h2o_Tstep = <<>> /\ h2o_qstep = <<>>
    /\ h2o_n = 0

\* Lines 429-436: one iteration: qsat of the current temperatures, the
\* humidity set from it, then step_forward.
HumidStep ==
    /\ hpc = "loop"
    /\ h2o_n < Min(RhSteps, MaxRhSteps)
    /\ LET qsat == QsatColumn(h2o_Tatm)
           q    == SetHumidity(h2o_q, rh, qsat)
       IN  /\ h2o_q' = q
           /\ h2o_qstep' = q
    /\ h2o_Tstep' = h2o_Tatm
    /\ h2o_Tatm' \in StepColumns(h2o_Tatm)
    /\ h2o_Ts' \in StepSurface(h2o_Ts)
    /\ h2o_n' = h2o_n + 1
    /\ UNCHANGED <<rh, hpc>>
    /\ UNCHANGED besidesHumid

\* Lines 429, 443: the loop has ended.
HumidExit ==
    /\ hpc = "loop"
    /\ h2o_n >= Min(RhSteps, MaxRhSteps)
    /\ hpc' = "done"
    /\ UNCHANGED <<rh, h2o_Tatm, h2o_Ts, h2o_q, h2o_Tstep, h2o_qstep, h2o_n>>
    /\ UNCHANGED besidesHumid

HumidNext ==
    \/ HumidStep
    \/ HumidExit

HumidSpec == HumidInit /\ [][HumidNext]_vars

\* -------------------------------------------------------------- unzip_cmip
\* The members an archive is made of: data files and the files that
\* accompany them.
MemberSet ==
    {<<"tas_1", "nc">>, <<"tas_2", "nc">>, <<"tas_3", "nc">>,
     <<"provenance", "json">>, <<"provenance", "png">>}

\* The archives: every sequence of at most MaxMembers distinct members.
ArchiveSet ==
    UNION {{a \in [1..n -> MemberSet] :
               \A i, j \in 1..n : i # j => a[i] # a[j]} : n \in 0..MaxMembers}

\* The list without its last two entries, s[:-2]; empty when there are at
\* most two.
DropLastTwo(s) == SubSeq(s, 1, Len(s) - 2)

\* Line 146: the call unzip_cmip(ofile) on a readable archive.
CmipInit ==
    /\ AdvectionOff
    /\ DaisyOff
    /\ WaterOff
    /\ StratOff
    /\ HumidOff
    /\ zpc = "call"
    /\ archive \in ArchiveSet
    /\ extracted = {}
    /\ files = <<>>

\* Lines 133-138: unzip_cmip extracts every member and returns
\* zip_ref.namelist()[:-2].
unzip_cmip ==
    /\ zpc = "call"
    /\ extracted' = {archive[i] : i \in 1..Len(archive)}
    /\ files' = DropLastTwo(archive)
    /\ zpc' = "done"
    /\ UNCHANGED archive
    /\ UNCHANGED besidesCmip

CmipNext ==
    \/ unzip_cmip

CmipSpec == CmipInit /\ [][CmipNext]_vars

\* ------------------------------------------------------------------ claims
\* The left and right periodic neighbours of entry i of a field of n entries.
LeftOf(i, n) == ((i - 2) % n) + 1

RightOf(i, n) == (i % n) + 1

\* u*dt/(2*dx), written out from the parameters.
StencilCoef == Rat(uvel * dt[1], 2 * dx * dt[2])

\* C1: one iteration maps the current field q to q' with, for every index i
\* taken modulo the length M, q'[i] = q[i] - (u*dt/(2*dx)) * (q[i+1] - q[i-1]);
\* the first entry uses the last as its left neighbour and the last entry
\* uses the first as its right neighbour.
C1_StepIsCentredDifference ==
    [][ (pc = "loop" /\ it' = it + 1) =>
          LET q  == heap[q0]
              M  == Len(heap[q0])
              qn == heap'[q1']
          IN  \A i \in 1..M :
                qn[i] = RSub(q[i], RMul(StencilCoef,
                                        RSub(q[RightOf(i, M)], q[LeftOf(i, M)])))
      ]_vars

\* C1 witness: a step has been taken on a grid of at least 3 points whose
\* first and last entries differ, and it changed the first entry.
C1_Witness ==
    /\ it = 1
    /\ Len(qinit0) >= 3
    /\ qinit0[1] # qinit0[Len(qinit0)]
    /\ heap[q1][1] # qinit0[1]

\* The set-up completed and the run reached the time loop: the grid and the
\* step count were computed without an exception.
LoopReached ==
    \/ pc \in {"loop", "plot"}
    \/ (pc = "done" /\ err \in {"", "NameError"})

\* C2 as stated: for T >= 0 and dt > 0 the loop has run ceil(T/dt) times when
\* it ends, that is (n-1)*dt < T <= n*dt for the number n of iterations.
C2_CeilStepCount ==
    (pc \in {"plot", "done"} /\ LoopReached /\ time >= 0 /\ dt[1] > 0) =>
        /\ RLess(RMul(RInt(it - 1), dt), RInt(time))
        /\ RLeq(RInt(time), RMul(RInt(it), dt))

\* For T >= 0 and dt > 0: nsteps is the largest n with n*dt <= T, the loop
\* never runs more often and has run exactly that often when it ends.
C2_Count ==
    (LoopReached /\ time >= 0 /\ dt[1] > 0) =>
        /\ RLeq(RMul(RInt(nsteps), dt), RInt(time))
        /\ RLess(RInt(time), RMul(RInt(nsteps + 1), dt))
        /\ it <= nsteps
        /\ (pc # "loop" => it = nsteps)

\* C2 amended: for T >= 0 and dt > 0 the loop applies the step exactly
\* int(T/dt) times (the quotient truncated, not rounded up), and the step
\* count is fixed before the first step and never changes afterwards.
C2_TruncStepCount ==
    [][ /\ (pc \in {"loop", "plot", "done"} => nsteps' = nsteps)
        /\ C2_Count'
      ]_vars

\* C2 witness: a run has ended after at least one step, with T not a
\* multiple of dt.
C2_Witness ==
    /\ pc = "done"
    /\ it >= 1
    /\ dt[1] > 0
    /\ RLess(RMul(RInt(it), dt), RInt(time))

\* C3: whatever the number of steps taken, the array qinit refers to holds
\* the values it was created with.
C3_InitialConditionNotMutated ==
    qinit # Unbound => (qinit \in DOMAIN heap /\ heap[qinit] = qinit0)

\* C3 witness: q0 started as an alias of qinit, at least two steps were
\* taken and the working field now differs from the initial field.
C3_Witness ==
    /\ it >= 2
    /\ q0 # qinit
    /\ heap[q0] # qinit0
    /\ heap[qinit] = qinit0

\* The field q rotated by k cells: entry i of the result is entry i-k of q,
\* indices taken modulo the length.
Rotation(q, k) == [i \in 1..Len(q) |-> q[((i - 1 - k) % Len(q)) + 1]]

\* The distance u*T travelled after the iterations completed (T = it*dt),
\* and that distance in grid cells.
Displacement == Rat(it * dt[1] * uvel, dt[2])

DisplacementCells == Rat(it * dt[1] * uvel, dt[2] * dx)

C5_ExactShiftWhenIntegral ==
    (qtrue # Unbound /\ DisplacementCells[2] = 1) =>
        heap[qtrue] = Rotation(heap[qinit], DisplacementCells[1])

\* C6: at every step count n, integrating the initial field rotated by k
\* cells gives the field integrated from the unrotated initial field,
\* rotated by k cells.
C6_TranslationInvariance ==
    q0 # Unbound =>
        \A k \in 0..Len(qinit0) :
            Integrate(Rotation(qinit0, k), K0, it) = Rotation(heap[q0], k)

\* C6 witness: two steps were taken on a grid of at least 3 points and the
\* field is neither the initial field nor invariant under a one-cell shift.
C6_Witness ==
    /\ it >= 2
    /\ Len(qinit0) >= 3
    /\ heap[q0] # qinit0
    /\ Rotation(heap[q0], 1) # heap[q0]

\* C7: with u = 0 the field equals the initial field after any number of
\* steps, under the explicit scheme and under the semi-Lagrangian scheme.
C7_ZeroVelocityFixesField ==
    (uvel = 0 /\ q0 # Unbound) =>
        /\ heap[q0] = qinit0
        /\ SLIntegrate(qinit0, uvel, dt, dx, it) = qinit0

\* C7 witness: u = 0 and two steps were taken on a field that is not
\* constant.
C7_Witness ==
    /\ uvel = 0
    /\ it >= 2
    /\ q1 # Unbound
    /\ Len(qinit0) >= 3
    /\ \E i \in 1..Len(qinit0) : qinit0[i] # qinit0[1]

\* C8: the field has the length of the initial field after any number of
\* steps, and a further explicit or semi-Lagrangian step of it has that
\* length too.
C8_LengthPreserved ==
    q0 # Unbound =>
        /\ Len(heap[q0]) = Len(qinit0)
        /\ Len(ExplicitStep(heap[q0], K0)) = Len(heap[q0])
        /\ Len(SemiLagrangianStep(heap[q0], uvel, dt, dx)) = Len(heap[q0])
        /\ (q1 # Unbound => Len(heap[q1]) = Len(qinit0))

\* C8 witness: two steps were taken on a grid of at least 3 points.
C8_Witness ==
    /\ it >= 2
    /\ q1 # Unbound
    /\ Len(heap[q1]) >= 3

\* The fields that agree with q at entry i and its two periodic neighbours
\* and take any sample value elsewhere.
AgreeingAround(q, i) ==
    LET M == Len(q)
        near == {LeftOf(i, M), i, RightOf(i, M)}
    IN  { [j \in 1..M |-> IF j \in near THEN q[j] ELSE v[j]] :
            v \in [(1..M) \ near -> QVals] }

\* C9: for the field q the loop holds at the head of an iteration (or at its
\* exit) and every field p that agrees with q at i-1, i and i+1 (modulo M),
\* a step of p and a step of q agree at i.
C9_StepIsLocal ==
    (pc = "loop" /\ q0 # Unbound) =>
        LET out == ExplicitStep(heap[q0], K0)
        IN  \A i \in 1..Len(heap[q0]) :
              \A p \in AgreeingAround(heap[q0], i) :
                ExplicitStep(p, K0)[i] = out[i]

\* C9 witness: on a grid of at least 5 points with a non-zero coefficient,
\* some field agrees with the current one around entry 1, differs from it
\* elsewhere, and its step differs from the current field's step elsewhere.
C9_Witness ==
    /\ it >= 1
    /\ K0 # RInt(0)
    /\ Len(heap[q0]) >= 5
    /\ \E p \in AgreeingAround(heap[q0], 1) :
         /\ p # heap[q0]
         /\ ExplicitStep(p, K0) # ExplicitStep(heap[q0], K0)
         /\ ExplicitStep(p, K0)[1] = ExplicitStep(heap[q0], K0)[1]

\* C10 as stated: on a grid of fewer than 3 points the run ends with an
\* InvalidGridSize error and no step is ever taken.
C10_SmallGridRejected ==
    (pc \in {"loop", "plot", "done"} /\ Len(xpt) \in {1, 2}) =>
        (err = "InvalidGridSize" /\ it = 0)

\* C11 as stated: with dx <= 0, dt <= 0 or T < 0 no step is ever taken and
\* the run ends with an error raised before the loop.  Any exception raised
\* by the set-up statements is accepted here in place of InvalidParameter.
C11_InvalidParameterRejected ==
    (dx <= 0 \/ dt[1] <= 0 \/ time < 0) =>
        /\ it = 0
        /\ pc = "done" =>
             err \in {"InvalidParameter", "ZeroDivisionError", "ValueError"}

\* C12 as stated, for runs whose parameters are valid (a grid of at least 3
\* points, dx > 0, dt > 0, T >= 0): the run ends either with all requested
\* steps taken and a final field, or with a validation error and no step
\* taken.
C12_TwoOutcomes ==
    (pc = "done" /\ Len(xpt) >= 3 /\ dx > 0 /\ dt[1] > 0 /\ time >= 0) =>
        \/ (err = "" /\ it = nsteps /\ q1 # Unbound)
        \/ (err \in {"InvalidGridSize", "InvalidParameter"} /\ it = 0)

\* One step of the scheme written index by index: entry i of the result is
\* q[i] - c*(q[i+1] - q[i-1]), indices modulo the length.
StencilStep(q, c) ==
    [i \in 1..Len(q) |->
        RSub(q[i], RMul(c, RSub(q[RightOf(i, Len(q))], q[LeftOf(i, Len(q))])))]

RECURSIVE StencilIterate(_, _, _)
StencilIterate(q, c, n) ==
    IF n <= 0 THEN q ELSE StencilIterate(StencilStep(q, c), c, n - 1)

C14_GridHalfOpen ==
    (pc # "grid" /\ dx > 0 /\ Len(xpt) >= 3) =>
        /\ xpt[1] = RInt(0)
        /\ \A i \in 1..(Len(xpt) - 1) : RSub(xpt[i + 1], xpt[i]) = RInt(dx)
        /\ \A i \in 1..Len(xpt) : RLess(xpt[i], RInt(xsize))

\* C14 amended: for dx > 0 the grid is an ordered sequence of N+1
\* coordinates, N = int(L/dx), that starts at 0; with N >= 1 it ends at L
\* itself (the closed interval [0, L]) and is spaced uniformly by L/N, which
\* is dx exactly when L is a multiple of dx.
C14_GridClosedInterval ==
    (pc # "grid" /\ dx > 0) =>
        LET N == Len(xpt) - 1
        IN  /\ N >= 0
            /\ N * dx <= xsize
            /\ xsize < (N + 1) * dx
            /\ xpt[1] = RInt(0)
            /\ N >= 1 => xpt[N + 1] = RInt(xsize)
            /\ \A i \in 1..N : RSub(xpt[i + 1], xpt[i]) = Rat(xsize, N)
            /\ \A i \in 1..N : RLess(xpt[i], xpt[i + 1])
            /\ (N >= 1 /\ xsize % dx = 0) => Rat(xsize, N) = RInt(dx)

\* C14 witness: a grid of at least 2 points whose length is not a multiple
\* of dx, so that the spacing is not dx.
C14_Witness ==
    /\ pc # "grid"
    /\ dx > 0
    /\ Len(xpt) >= 2
    /\ xsize % dx # 0
    /\ xpt[Len(xpt)] = RInt(xsize)

\* The smaller and the larger of two rationals.
RMin(a, b) == IF RLeq(a, b) THEN a ELSE b
RMax(a, b) == IF RLeq(a, b) THEN b ELSE a

\* C16: in the semi-Lagrangian step with dx > 0, for every grid point the
\* departure coordinate lies between two periodically adjacent grid cells,
\* left <= x_d/dx < left + 1, the weight frac = x_d/dx - left satisfies
\* 0 <= frac < 1, and the new value is q[l] + frac*(q[r] - q[l]), which lies
\* between the two bracketing field values.
C16_ConvexInterpolation ==
    (pc = "loop" /\ q0 # Unbound /\ dx > 0) =>
        LET q   == heap[q0]
            M   == Len(q)
            out == SemiLagrangianStep(q, uvel, dt, dx)
        IN  \A i \in 1..M :
                LET pos  == SLPos(i, uvel, dt, dx)
                    frac == SLFrac(pos)
                    l    == SLLeftIndex(pos, M)
                    r    == SLRightIndex(pos, M)
                IN  /\ pos = RSub(RInt(i - 1), Rat(uvel * dt[1], dt[2] * dx))
                    /\ RLeq(RInt(SLLeft(pos)), pos)
                    /\ RLess(pos, RInt(SLLeft(pos) + 1))
                    /\ l \in 1..M /\ r \in 1..M
                    /\ r = (l % M) + 1
                    /\ RLeq(RInt(0), frac) /\ RLess(frac, RInt(1))
                    /\ frac = RSub(pos, RInt(SLLeft(pos)))
                    /\ out[i] = RAdd(q[l], RMul(frac, RSub(q[r], q[l])))
                    /\ RLeq(RMin(q[l], q[r]), out[i])
                    /\ RLeq(out[i], RMax(q[l], q[r]))

\* C16 witness: a step from a field whose departure point for some grid
\* point lies left of the first cell and strictly between two cells that
\* hold different values, so the new value is strictly between them.
C16_Witness ==
    /\ pc = "loop" /\ q0 # Unbound /\ dx > 0
    /\ \E i \in 1..Len(heap[q0]) :
          LET q   == heap[q0]
              M   == Len(q)
              pos == SLPos(i, uvel, dt, dx)
              l   == SLLeftIndex(pos, M)
              r   == SLRightIndex(pos, M)
              v   == SemiLagrangianStep(q, uvel, dt, dx)[i]
          IN  /\ RLess(pos, RInt(0))
              /\ RLess(RInt(0), SLFrac(pos))
              /\ q[l] # q[r]
              /\ RLess(RMin(q[l], q[r]), v)
              /\ RLess(v, RMax(q[l], q[r]))

\* A run with an integral time step has ended with a computed and a
\* reference field of at least one grid point: the two fields the error
\* metric is asked for.
RmseCase ==
    /\ pc \in {"plot", "done"} /\ err = ""
    /\ q1 # Unbound /\ qtrue # Unbound
    /\ Len(heap[q1]) >= 1
    /\ dt[2] = 1

\* The value zero of the error metric.
RmseZero == [exact |-> TRUE, value |-> RInt(0)]

\* C17: the error metric of a computed and a reference field is the square
\* root of the mean of the squared entrywise differences: its square times
\* the number of points is the sum of the squared differences, it lies
\* between the smallest and the largest absolute difference, and it is zero
\* exactly when the two fields are equal; RMSE(q, q) = 0 for every field q.
C17_RmseDefinitionAndZero ==
    RmseCase =>
        LET c  == heap[q1]
            r  == heap[qtrue]
            M  == Len(c)
            ms == MeanSquare(c, r)
            e  == Rmse(c, r)
        IN  /\ Rmse(c, c) = RmseZero
            /\ Rmse(r, r) = RmseZero
            /\ Rmse(qinit0, qinit0) = RmseZero
            /\ (e = RmseZero) <=> (c = r)
            /\ RMul(ms, RInt(M)) = SumSq(c, r, M)
            /\ \E i \in 1..M : RLeq(SqErr(c[i], r[i]), ms)
            /\ \E i \in 1..M : RLeq(ms, SqErr(c[i], r[i]))
            /\ IF e.exact THEN RLeq(RInt(0), e.value) /\ RMul(e.value, e.value) = ms
                          ELSE e.radicand = ms /\ RLess(RInt(0), ms)

\* C17 witness: a run ended with a computed field that is not zero
\* everywhere and differs from the reference in at least two grid points.
C17_Witness ==
    /\ RmseCase
    /\ \E i \in 1..Len(heap[q1]) : heap[q1][i] # RInt(0)
    /\ \E i, j \in 1..Len(heap[q1]) :
          /\ i # j
          /\ heap[q1][i] # heap[qtrue][i]
          /\ heap[q1][j] # heap[qtrue][j]
    /\ Rmse(heap[q1], heap[qtrue]) # RmseZero

\* C18: the error metric is symmetric in its two fields: for the computed
\* field against the reference and against the initial field,
\* RMSE(a, b) = RMSE(b, a).
C18_RmseSymmetric ==
    RmseCase =>
        LET c == heap[q1]
            r == heap[qtrue]
        IN  /\ Rmse(c, r) = Rmse(r, c)
            /\ Rmse(c, qinit0) = Rmse(qinit0, c)
            /\ Rmse(r, qinit0) = Rmse(qinit0, r)

\* C18 witness: a run ended with a computed field and a reference that
\* differ, are not rotations of each other by one cell, and have a non-zero
\* error.
C18_Witness ==
    /\ RmseCase
    /\ Len(heap[q1]) >= 3
    /\ heap[q1] # heap[qtrue]
    /\ heap[q1] # Rotation(heap[qtrue], 1)
    /\ heap[qtrue] # Rotation(heap[q1], 1)
    /\ Rmse(heap[q1], heap[qtrue]) = Rmse(heap[qtrue], heap[q1])
    /\ ~Rmse(heap[q1], heap[qtrue]).exact

\* The birth rate b computed for the local temperature T is the response
\* curve of equation 3, cut off at zero.
BirthRateOf(T, b) ==
    LET d == Td_ideal - T
    IN  /\ 0 <= b /\ b <= One
        /\ b = Max(BirthQuadratic(T), 0)
        /\ (Abs(d) <= 800 => b = One - ((birth_rate_k * d * d) \div 1000000))
        /\ (Abs(d) <= 1750 <=> b > 0)
        /\ (BirthQuadratic(T) > 0 => b = BirthQuadratic(T))
        /\ (BirthQuadratic(T) <= 0 => b = 0)

\* C19: every birth rate the sweep computes is birth_rate of the local
\* temperature: it is never negative and never above 1, it equals
\* 1 - 0.003265*(Td_ideal - T)^2 where that is positive (within 17.5 K of
\* Td_ideal) and it is 0 otherwise.
C19_BirthRateNonNegative ==
    (dpc \in {"sweep", "relax", "done"} /\ (loop_it >= 1 \/ iflux >= 1)) =>
        /\ BirthRateOf(T_db, birth_rate_db)
        /\ BirthRateOf(T_dw, birth_rate_dw)

\* C19 witness: an iteration in which the white daisies are too cold to grow
\* (the quadratic is negative, the rate is 0) while the black daisies grow
\* at a rate strictly between 0 and 1.
C19_Witness ==
    /\ dpc = "relax" /\ loop_it >= 1
    /\ T_dw < Td_ideal - 1750
    /\ BirthQuadratic(T_dw) < 0
    /\ birth_rate_dw = 0
    /\ 0 < birth_rate_db /\ birth_rate_db < One

\* The areas the previous luminosity left: its stored final areas, or the
\* initial 0.01 before the first luminosity.
PrevAreaDw == IF iflux = 0 THEN MinArea ELSE area_dw_v[iflux]

PrevAreaDb == IF iflux = 0 THEN MinArea ELSE area_db_v[iflux]

\* C20: at the first inner iteration of every luminosity the white and the
\* black area are the areas the previous luminosity left, each raised to at
\* least 0.01, and the bare soil is the rest.
C20_RelaxationStartsAtOnePercent ==
    (dpc = "relax" /\ loop_it = 0) =>
        /\ Len(area_dw_v) = iflux /\ Len(area_db_v) = iflux
        /\ area_dw = Max(PrevAreaDw, MinArea)
        /\ area_db = Max(PrevAreaDb, MinArea)
        /\ area_dw >= MinArea /\ area_db >= MinArea
        /\ area_bs = One - area_dw - area_db

\* C20 witness: a luminosity starts after one in which the white daisies had
\* died out and the black daisies had not: the white area is raised to 0.01
\* and the black area is carried over.
C20_Witness ==
    /\ dpc = "relax" /\ loop_it = 0 /\ iflux >= 1
    /\ area_dw_v[iflux] < MinArea
    /\ area_dw = MinArea
    /\ area_db_v[iflux] > MinArea
    /\ area_db = area_db_v[iflux]

\* The parameter fac in effect for the call: the default 0.14 when omitted.
FacInEffect == IF tau_fac = <<>> THEN FacDefault ELSE tau_fac[1]

\* C21 as stated: the value returned by tau is
\* 1.12 + fac*exp(-(Lv/Rv)*(1/T - 1/288)) for the fac in effect (0.14 when
\* omitted), so tau(288) = 1.26 with the default.
C21_TauUsesFac ==
    wpc = "done" =>
        /\ tau_val = TauCo2 + TauwvScaled(tau_T, FacInEffect)
        /\ (tau_T = 288 /\ tau_fac = <<>>) => tau_val = 12600

\* C22 as stated: after every iteration of the stratosphere-adjusted loop
\* the surface temperature and the temperatures of levels 13 and larger
\* equal their reference values, and levels 0 through 12 hold what the step
\* left there (they are not reset).
C22_OnlyTroposphereReset ==
    (spc \in {"loop", "done"} /\ strat_n >= 1) =>
        /\ strat_Ts = rcm_Ts
        /\ \A i \in Levels :
             i >= FirstTroposphericLevel => strat_Tatm[i] = rcm_Tatm[i]
        /\ \A i \in Levels :
             i < FirstTroposphericLevel => strat_Tatm[i] = strat_stepped[i]

\* C23: after every forward step of the fixed-relative-humidity loop, the
\* step was taken from the temperatures current at that moment with
\* specific humidity rh*qsat(those temperatures), level by level, so the
\* relative humidity at the moment of stepping was the reference one; the
\* humidity has not been recomputed after the step.
C23_HumiditySetBeforeEachStep ==
    (hpc \in {"loop", "done"} /\ h2o_n >= 1) =>
        /\ h2o_Tatm \in StepColumns(h2o_Tstep)
        /\ \A i \in Levels :
             /\ h2o_qstep[i] = RMul(rh[i], RInt(Qsat(h2o_Tstep[i], Lev(i))))
             /\ RDiv(h2o_qstep[i], RInt(Qsat(h2o_Tstep[i], Lev(i)))) = rh[i]
        /\ h2o_q = h2o_qstep

\* C23 witness: after two steps the temperatures differ from those the last
\* step started from, the humidity is still that of the step and no longer
\* rh*qsat of the current temperatures, and it differs from the reference
\* humidity.
C23_Witness ==
    /\ hpc \in {"loop", "done"} /\ h2o_n >= 2
    /\ h2o_Tatm # h2o_Tstep
    /\ h2o_q = SetHumidity(h2o_q, rh, QsatColumn(h2o_Tstep))
    /\ h2o_q # SetHumidity(h2o_q, rh, QsatColumn(h2o_Tatm))
    /\ h2o_q # SetHumidity(h2o_q, rh, QsatColumn(rcm_Tatm))

\* The file is a .nc file.
IsNc(member) == member[2] = "nc"

\* C24 as stated: the list unzip_cmip returns holds .nc files only, and
\* every .nc member of the archive is in it.
C24_ReturnsExactlyNc ==
    zpc = "done" =>
        /\ \A i \in 1..Len(files) : IsNc(files[i])
        /\ \A i \in 1..Len(archive) :
             IsNc(archive[i]) => \E j \in 1..Len(files) : files[j] = archive[i]

\* x truncated toward zero, from the sign and the magnitude of x.
TowardZero(x) ==
    IF x[1] >= 0 THEN x[1] \div x[2] ELSE -((-x[1]) \div x[2])

\* C25: once n >= 1 steps have been taken, the reference solution is the
\* initial field rotated by int(n*dt*u) cells, the shift truncated toward
\* zero: the largest whole number below a positive shift, the smallest above
\* a negative one, also when n*dt*u is not whole.
C25_ReferenceUsesTruncatedShift ==
    qtrue # Unbound =>
        LET x == Displacement
            k == TowardZero(x)
        IN  /\ heap[qtrue] = Rotation(qinit0, k)
            /\ (x[1] >= 0 => RLeq(RInt(k), x) /\ RLess(x, RInt(k + 1)))
            /\ (x[1] < 0 => RLeq(x, RInt(k)) /\ RLess(RInt(k - 1), x))
            /\ (x[2] = 1 => k = x[1])

\* C25 witness: the shift n*dt*u is negative and not whole, and the
\* reference solution is not the initial field rotated by the shift rounded
\* down.
C25_Witness ==
    /\ qtrue # Unbound
    /\ it >= 1
    /\ Displacement[1] < 0
    /\ Displacement[2] # 1
    /\ heap[qtrue] = Rotation(qinit0, TowardZero(Displacement))
    /\ heap[qtrue] # Rotation(qinit0, RFloor(Displacement))

\* C26: every iteration builds the whole new field from the field the
\* previous iteration left, entry by entry from that field only, in an
\* array that did not exist before (no array in use is written); the new
\* field becomes the current one only when complete, and iterations are
\* counted one by one.
C26_StepsFromCommittedField ==
    [][ (pc = "loop" /\ it' # it) =>
          /\ it' = it + 1
          /\ q1' \notin DOMAIN heap
          /\ q0' = q1'
          /\ Len(heap'[q1']) = Len(heap[q0])
          /\ heap'[q1'] = StencilStep(heap[q0], StencilCoef)
          /\ heap[q0] = StencilIterate(qinit0, StencilCoef, it)
      ]_vars

\* C26 witness: two steps were taken and the current field is the step of
\* the previous one, which an entry-by-entry update in place would not have
\* given.
C26_Witness ==
    /\ pc = "loop" /\ it >= 2
    /\ LET prev == StencilIterate(qinit0, StencilCoef, it - 1)
       IN  /\ heap[q0] = StencilStep(prev, StencilCoef)
           /\ heap[q0] # SweepFrom(prev, StencilCoef, 1)

\* The total of a field.
RECURSIVE FieldSum(_, _)
FieldSum(q, n) == IF n = 0 THEN RInt(0) ELSE RAdd(FieldSum(q, n - 1), q[n])

\* C27: the total of the field over the periodic grid is the same after any
\* number of steps, for every initial field and every u, dt, dx for which
\* the loop runs.
C27_TotalConserved ==
    (pc \in {"loop", "plot", "done"} /\ q0 # Unbound) =>
        /\ FieldSum(heap[q0], Len(heap[q0])) = FieldSum(qinit0, Len(qinit0))
        /\ (pc = "loop" =>
              FieldSum(ExplicitStep(heap[q0], K0), Len(heap[q0]))
                  = FieldSum(heap[q0], Len(heap[q0])))

\* C27 witness: two steps were taken on a grid of at least three points, the
\* field changed, and its total is the non-zero total of the initial field.
C27_Witness ==
    /\ q0 # Unbound /\ it >= 2
    /\ Len(qinit0) >= 3
    /\ heap[q0] # qinit0
    /\ FieldSum(qinit0, Len(qinit0)) # RInt(0)
    /\ FieldSum(heap[q0], Len(heap[q0])) = FieldSum(qinit0, Len(qinit0))

\* C28 as stated: a run with valid parameters whose step count is zero ends
\* without an error, with a final field and a reference field that both
\* equal the initial field.
C28_ZeroStepsYieldInitialField ==
    (pc = "done" /\ LoopReached /\ nsteps = 0 /\ dx > 0 /\ dt[1] > 0
        /\ time >= 0 /\ Len(xpt) >= 3) =>
        /\ err = ""
        /\ q1 # Unbound /\ qtrue # Unbound
        /\ heap[q1] = qinit0
        /\ heap[qtrue] = qinit0

\* C29: after the clamp at the start of each luminosity and after every
\* inner iteration, the white, black and bare fractions each lie in [0, 1]
\* and add up to 1.
C29_AreasPartitionPlanet ==
    (dpc = "relax" \/ (dpc \in {"sweep", "done"} /\ iflux >= 1)) =>
        /\ 0 <= area_dw /\ area_dw <= One
        /\ 0 <= area_db /\ area_db <= One
        /\ 0 <= area_bs /\ area_bs <= One
        /\ area_dw + area_db + area_bs = One

\* C29 witness: after an inner iteration both kinds of daisies cover more
\* than 1% and together more than half of the planet, and some soil is bare.
C29_Witness ==
    /\ dpc = "relax" /\ loop_it >= 1
    /\ area_dw > MinArea /\ area_db > MinArea
    /\ 2 * (area_dw + area_db) > One
    /\ 0 < area_bs
    /\ area_dw + area_db + area_bs = One

\* C30: an inner iteration computes the albedo, the temperatures and both
\* birth rates from the areas it starts with, grows both daisy areas with
\* those rates and the bare soil it starts with, and recomputes the bare
\* soil from both new areas; an entry is appended to every result list only
\* after exactly maxloop iterations, one entry to each list, and the counter
\* restarts at 0 for the next luminosity.
C30_IterationUsesOneState ==
    [][ /\ (loop_it' = loop_it + 1) =>
              /\ dpc = "relax" /\ loop_it < maxloop
              /\ alb_p' = PlanetAlbedo(area_dw, area_db, area_bs)
              /\ T_db' = LocalTemp(alb_p', alb_db, T_p')
              /\ T_dw' = LocalTemp(alb_p', alb_dw, T_p')
              /\ birth_rate_db' = birth_rate(T_db')
              /\ birth_rate_dw' = birth_rate(T_dw')
              /\ area_db' = Grow(area_db, birth_rate_db', area_bs)
              /\ area_dw' = Grow(area_dw, birth_rate_dw', area_bs)
              /\ area_bs' = One - area_db' - area_dw'
              /\ UNCHANGED <<area_dw_v, area_db_v, area_bs_v, T_p_v, T_ref>>
        /\ (<<area_dw_v, area_db_v, area_bs_v, T_p_v, T_ref>>'
                # <<area_dw_v, area_db_v, area_bs_v, T_p_v, T_ref>>) =>
              /\ loop_it = maxloop
              /\ area_db_v' = Append(area_db_v, area_db)
              /\ area_dw_v' = Append(area_dw_v, area_dw)
              /\ area_bs_v' = Append(area_bs_v, area_bs)
              /\ T_p_v' = Append(T_p_v, T_p)
              /\ Len(T_ref') = Len(T_ref) + 1
              /\ Len(area_dw_v') = iflux'
              /\ iflux' = iflux + 1
        /\ (loop_it' # loop_it /\ loop_it' # loop_it + 1) =>
              /\ loop_it = maxloop /\ loop_it' = 0
              /\ Len(area_dw_v) = iflux
        /\ (dpc' = "done") =>
              /\ iflux' = NLum
              /\ \A v \in {area_dw_v', area_db_v', area_bs_v', T_p_v', T_ref'} :
                   Len(v) = NLum
      ]_vars

\* C30 witness: the sweep is past its first luminosity and in the middle of
\* a relaxation in which both kinds of daisies grow and in which growing the
\* white daisies into the soil left by the black ones would give another
\* result than the one the next iteration gives.
C30_Witness ==
    /\ dpc = "relax" /\ iflux >= 1
    /\ loop_it >= 1 /\ loop_it < maxloop
    /\ birth_rate_db > 0 /\ birth_rate_dw > 0
    /\ Len(area_dw_v) = iflux
    /\ GrowBoth(area_db, area_dw, birth_rate_db, birth_rate_dw, area_bs)
         # GrowBothInTurn(area_db, area_dw, birth_rate_db, birth_rate_dw, area_bs)

====
